---- MODULE Spec2Model ----
(***************************************************************************)
(* Session manager of pos-toko-bugis-v2: the AuthProvider component.       *)
(*                                                                         *)
(* Two copies of the provider exist in the repository:                     *)
(*   src/src/context/AuthContext.tsx   (build "AuthContext")               *)
(*   src/unnamed/part_000              (build "part_000")                  *)
(* They differ only in login (password check and notifications); the       *)
(* mount effect, signup and logout are the same statements.  The variable  *)
(* build says which copy is mounted; it never changes.                     *)
(*                                                                         *)
(* JavaScript values are records carrying a type tag t, so that null, a    *)
(* string and an object can be held by the same variable.                  *)
(*                                                                         *)
(* The mount effect runs in the commit of the first render, before any     *)
(* handler of a consumer can call login, signup or logout: mounted guards  *)
(* the three operations.  Everything an async function does between two    *)
(* awaits runs in one turn of the event loop and is one step; the state    *)
(* setters of that turn are applied together (React batches them).  A      *)
(* request to the table is evaluated when it is answered, and the answer   *)
(* is truthful: an insert answered with an error, or rejected, was not     *)
(* applied.  localStorage itself never throws.                             *)
(*                                                                         *)
(* inFlightAtLogout is a history variable: no statement of the program     *)
(* reads it.  It records which logins were suspended at their await when   *)
(* logout last ran, so that properties can tell them from later logins.    *)
(***************************************************************************)
EXTENDS Naturals, Sequences, FiniteSets, TLC

VARIABLES build, user, isLoading, localStorage, mounted, users, calls,
          inFlightAtLogout   \* history: the logins that were suspended when logout last ran

vars == <<build, user, isLoading, localStorage, mounted, users, calls, inFlightAtLogout>>

(* ---------------------------- bounds ----------------------------------- *)

\* number of login/signup invocations made during one run
MaxCalls == 2

Builds == {"AuthContext", "part_000"}
Usernames == {"admin", "staff"}
Passwords == {"admin123", "staff123"}
Names == {"Budi"}
Roles == {"admin", "staff"}

\* the userData objects passed to signup: the password and the role vary
\* together
SignupData ==
    {d \in [name : Names, username : Usernames, password : Passwords, role : Roles] :
        d.password = "admin123" <=> d.role = "admin"}

(* ------------------------- JavaScript values --------------------------- *)

Null == [t |-> "null"]

\* A string.  kind tells what the characters are: "empty" is the string of
\* length 0, "corrupt" a non-empty string that is not JSON, "null" the four
\* characters null, "object" the JSON text of an object whose members
\* (key, value) follow in the order they were written.
Str(kind, members) == [t |-> "string", kind |-> kind, members |-> members]

EmptyString == Str("empty", <<>>)
CorruptString == Str("corrupt", <<>>)
NullJson == Str("null", <<>>)

\* if (v): null and the empty string are falsy, objects and other strings truthy
Truthy(v) ==
    /\ v.t # "null"
    /\ ~(v.t = "string" /\ v.kind = "empty")

\* the keys of the object literal userData, in the order they are written
UserKeys == <<"id", "name", "username", "role", "created_at">>

\* JSON.stringify: members in key order
JSON_stringify(v) ==
    IF v.t = "null"
    THEN NullJson
    ELSE Str("object", [i \in 1..Len(UserKeys) |-> <<UserKeys[i], v[UserKeys[i]]>>])

\* JSON.parse: a SyntaxError on text that is not JSON (the empty string
\* included), the value the text denotes otherwise
JSON_parse(s) ==
    CASE s.kind = "null" -> [threw |-> FALSE, value |-> Null]
      [] s.kind = "object" ->
           [threw |-> FALSE,
            value |-> [k \in {"t"} \cup {s.members[i][1] : i \in 1..Len(s.members)} |->
                         IF k = "t" THEN "object"
                         ELSE s.members[CHOOSE i \in 1..Len(s.members) : s.members[i][1] = k][2]]]
      [] OTHER -> [threw |-> TRUE, value |-> Null]

(* ------------------------------ storage -------------------------------- *)

Missing == [t |-> "missing"]

\* localStorage.getItem: null when the key is not there
getItem(store, key) == IF store[key].t = "missing" THEN Null ELSE store[key]

setItem(store, key, value) == [store EXCEPT ![key] = value]

removeItem(store, key) == [store EXCEPT ![key] = Missing]

(* --------------------------- the users table --------------------------- *)

\* a row of the table 'users'
Row(id, name, username, password, role) ==
    [t |-> "object", id |-> ToString(id), name |-> name, username |-> username,
     password |-> password, role |-> role, created_at |-> ToString(100 + id)]

PGRST116 == [t |-> "object", code |-> "PGRST116"]
OtherError == [t |-> "object", code |-> "500"]

Response(data, error) == [rejected |-> FALSE, data |-> data, error |-> error]
Rejection == [rejected |-> TRUE, data |-> Null, error |-> Null]

\* what `await supabase.from('users').select(cols).eq('username', u).single()`
\* can settle to: the one matching row; PGRST116 when the match is not
\* exactly one row; another error; a response carrying neither a row nor an
\* error; a rejected promise.
Project(row, cols) ==
    IF cols = "*" THEN row ELSE [t |-> "object", username |-> row.username]

single(table, cols, username) ==
    LET matching == {r \in table : r.username = username}
    IN  (IF Cardinality(matching) = 1
         THEN {Response(Project(r, cols), Null) : r \in matching}
         ELSE {Response(Null, PGRST116)})
        \cup {Response(Null, OtherError), Response(Null, Null), Rejection}

(* ------------------------------- calls --------------------------------- *)

\* one invocation of login or signup: its arguments, where it is suspended,
\* the promise it returned and the toasts it raised
Idle == [pc |-> "idle", op |-> "none", name |-> "", username |-> "", password |-> "",
         role |-> "", settled |-> "pending", value |-> FALSE, toast |-> <<>>]

\* invocations are numbered in the order they are made
NextCall(c) == calls[c].pc = "idle" /\ \A d \in 1..(c - 1) : calls[d].pc # "idle"

(* ------------------------------- Init ---------------------------------- *)

InitialRows == {Row(1, n, "admin", "staff123", "admin") : n \in Names}

InitialItems ==
    {Missing, EmptyString, CorruptString, NullJson, Str("object", <<>>)}
    \cup {JSON_stringify([t |-> "object", id |-> r.id, name |-> r.name, username |-> r.username,
                          role |-> r.role, created_at |-> r.created_at]) : r \in InitialRows}

Init ==
    /\ build \in Builds
    /\ user = Null
    /\ isLoading = TRUE
    /\ localStorage \in [tobaku_user : InitialItems]
    /\ mounted = FALSE
    /\ users \in {{}} \cup {{r} : r \in InitialRows}
    /\ calls = [c \in 1..MaxCalls |-> Idle]
    /\ inFlightAtLogout = {}

(* ------------------------------ actions -------------------------------- *)

\* the mount effect: restore the saved session
Restore ==
    /\ ~mounted
    /\ mounted' = TRUE
    /\ LET savedUser == getItem(localStorage, "tobaku_user")
       IN  IF Truthy(savedUser)
           THEN LET parsed == JSON_parse(savedUser)
                IN  IF parsed.threw
                    THEN /\ localStorage' = removeItem(localStorage, "tobaku_user")
                         /\ user' = user
                    ELSE /\ user' = parsed.value
                         /\ localStorage' = localStorage
           ELSE UNCHANGED <<user, localStorage>>
    /\ isLoading' = FALSE
    /\ UNCHANGED <<build, users, calls, inFlightAtLogout>>

\* What a run of a try block ends with: an exception (threw) or a return
\* value, whether the session was written on the way (session, userData),
\* and the toasts raised.
Return(value, toast) ==
    [threw |-> FALSE, goOn |-> FALSE, value |-> value, session |-> FALSE, userData |-> Null,
     toast |-> toast]

Throw == [Return(FALSE, <<>>) EXCEPT !.threw = TRUE]

\* the try block has not returned: the next statement is the insert
GoOn == [Return(FALSE, <<>>) EXCEPT !.goOn = TRUE]

error(text) == [kind |-> "error", text |-> text]
success(text) == [kind |-> "success", text |-> text]

Catch_rethrows(outcome, message) == outcome

\* catch (error) { console.error; toast.error(message); return false }
Catch(outcome, message) ==
    IF outcome.threw THEN Return(FALSE, <<error(message)>>) ELSE outcome

\* const isValidPassword = users.password === password
isValidPassword(row, username, password) == row.password = password

\* const isValidPassword = (username === 'admin' && password === 'admin123') || ...
isValidPassword_part_000(row, username, password) ==
    \/ username = "admin" /\ password = "admin123"
    \/ username = "staff" /\ password = "staff123"

userData_nameFromUsername(row) ==
    [t |-> "object", id |-> row.id, name |-> row.username, username |-> row.username,
     role |-> row.role, created_at |-> row.created_at]

userData_wholeRow(row) == row

\* const userData: User = { id, name, username, role, created_at } of the row
userData(row) ==
    [t |-> "object", id |-> row.id, name |-> row.name, username |-> row.username,
     role |-> row.role, created_at |-> row.created_at]

loginTry_sessionBeforeCheck(resp, username, password) ==
    IF resp.rejected THEN [Return(FALSE, <<>>) EXCEPT !.threw = TRUE]
    ELSE IF Truthy(resp.error) THEN Return(FALSE, <<error(<<"Terjadi kesalahan saat login">>)>>)
    ELSE IF resp.data.t = "null" THEN [Return(FALSE, <<>>) EXCEPT !.threw = TRUE]
    ELSE [Return(resp.data.password = password, <<>>)
            EXCEPT !.session = TRUE,
                   !.userData = [t |-> "object", id |-> resp.data.id, name |-> resp.data.name,
                                 username |-> resp.data.username, role |-> resp.data.role,
                                 created_at |-> resp.data.created_at]]

loginTry_clearsOnFailure(resp, username, password) ==
    IF resp.rejected THEN [Return(FALSE, <<>>) EXCEPT !.threw = TRUE]
    ELSE IF Truthy(resp.error)
    THEN [Return(FALSE, <<error(<<"Terjadi kesalahan saat login">>)>>) EXCEPT !.session = TRUE]
    ELSE IF resp.data.t = "null" THEN [Return(FALSE, <<>>) EXCEPT !.threw = TRUE]
    ELSE IF resp.data.password = password
    THEN [Return(TRUE, <<success(<<"Selamat datang, ", resp.data.name, "!">>)>>)
            EXCEPT !.session = TRUE,
                   !.userData = [t |-> "object", id |-> resp.data.id, name |-> resp.data.name,
                                 username |-> resp.data.username, role |-> resp.data.role,
                                 created_at |-> resp.data.created_at]]
    ELSE [Return(FALSE, <<error(<<"Password salah">>)>>) EXCEPT !.session = TRUE]

\* the statements of login after the await, inside try
loginTry(resp, username, password) ==
    IF resp.rejected THEN Throw
    ELSE IF Truthy(resp.error)
    THEN IF resp.error.code = "PGRST116"
         THEN Return(FALSE, <<error(<<"Username tidak ditemukan">>)>>)
         ELSE Return(FALSE, <<error(<<"Terjadi kesalahan saat login">>)>>)
    ELSE IF resp.data.t = "null" THEN Throw   \* users.password of null: TypeError
    ELSE IF Truthy(resp.data) /\ isValidPassword(resp.data, username, password)
    THEN [Return(TRUE, <<success(<<"Selamat datang, ", resp.data.name, "!">>)>>)
            EXCEPT !.session = TRUE, !.userData = userData(resp.data)]
    ELSE Return(FALSE, <<error(<<"Password salah">>)>>)

loginTry_part_000(resp, username, password) ==
    IF resp.rejected THEN Throw
    ELSE IF Truthy(resp.error) THEN Return(FALSE, <<>>)
    ELSE IF Truthy(resp.data) /\ isValidPassword_part_000(resp.data, username, password)
    THEN [Return(TRUE, <<>>) EXCEPT !.session = TRUE, !.userData = userData(resp.data)]
    ELSE Return(FALSE, <<>>)

\* try { ... } catch (error) { ... } of login
loginOutcome(resp, username, password) ==
    Catch(loginTry(resp, username, password), <<"Terjadi kesalahan saat login">>)

loginOutcome_part_000(resp, username, password) ==
    Catch(loginTry_part_000(resp, username, password), <<"Terjadi kesalahan saat login">>)

\* The invocation returns: its promise is fulfilled with the returned value,
\* or rejected with the exception that escaped; its arguments and locals are
\* gone.
Settle(call, outcome) ==
    [Idle EXCEPT !.pc = "done",
                 !.op = call.op,
                 !.settled = IF outcome.threw THEN "rejected" ELSE "fulfilled",
                 !.value = outcome.value,
                 !.toast = call.toast \o outcome.toast]

\* login(username, password) up to the await: setIsLoading(true), send the lookup
login(c, username, password) ==
    /\ mounted
    /\ NextCall(c)
    /\ isLoading' = TRUE
    /\ calls' = [calls EXCEPT ![c] = [Idle EXCEPT !.pc = "await_lookup", !.op = "login",
                                                  !.username = username, !.password = password]]
    /\ UNCHANGED <<build, user, localStorage, mounted, users, inFlightAtLogout>>

loginFinish_cancelledByLogout(c, outcome) ==
    /\ IF outcome.session /\ c \notin inFlightAtLogout
       THEN /\ user' = outcome.userData
            /\ localStorage' = [localStorage EXCEPT !["tobaku_user"] = JSON_stringify(outcome.userData)]
       ELSE UNCHANGED <<user, localStorage>>
    /\ isLoading' = FALSE
    /\ calls' = [calls EXCEPT ![c] =
                   [Idle EXCEPT !.pc = "done", !.op = "login", !.settled = "fulfilled",
                                !.value = outcome.value /\ c \notin inFlightAtLogout,
                                !.toast = outcome.toast]]
    /\ inFlightAtLogout' = inFlightAtLogout \ {c}
    /\ UNCHANGED <<build, mounted, users>>

loginFinish_noFinally(c, outcome) ==
    /\ IF outcome.session
       THEN /\ user' = outcome.userData
            /\ localStorage' = [localStorage EXCEPT !["tobaku_user"] = JSON_stringify(outcome.userData)]
       ELSE UNCHANGED <<user, localStorage>>
    /\ isLoading' = IF outcome.value THEN FALSE ELSE isLoading
    /\ calls' = [calls EXCEPT ![c] =
                   [Idle EXCEPT !.pc = "done", !.op = "login", !.settled = "fulfilled",
                                !.value = outcome.value, !.toast = outcome.toast]]
    /\ inFlightAtLogout' = inFlightAtLogout \ {c}
    /\ UNCHANGED <<build, mounted, users>>

\* the lookup settles and login runs to its end: try, catch, finally
loginFinish(c, outcome) ==
    /\ IF outcome.session
       THEN /\ user' = outcome.userData
            /\ localStorage' = setItem(localStorage, "tobaku_user", JSON_stringify(outcome.userData))
       ELSE UNCHANGED <<user, localStorage>>
    /\ isLoading' = FALSE
    /\ calls' = [calls EXCEPT ![c] = Settle(@, outcome)]
    /\ inFlightAtLogout' = inFlightAtLogout \ {c}
    /\ UNCHANGED <<build, mounted, users>>

loginAwait(c) ==
    /\ build = "AuthContext"
    /\ calls[c].pc = "await_lookup"
    /\ \E resp \in single(users, "*", calls[c].username) :
          loginFinish(c, loginOutcome(resp, calls[c].username, calls[c].password))

loginAwait_part_000(c) ==
    /\ build = "part_000"
    /\ calls[c].pc = "await_lookup"
    /\ \E resp \in single(users, "*", calls[c].username) :
          loginFinish(c, loginOutcome_part_000(resp, calls[c].username, calls[c].password))

\* signup(userData) up to the first await: setIsLoading(true), send the check
signup(c, name, username, password, role) ==
    /\ mounted
    /\ NextCall(c)
    /\ isLoading' = TRUE
    /\ calls' = [calls EXCEPT ![c] = [Idle EXCEPT !.pc = "await_check", !.op = "signup",
                                                  !.name = name, !.username = username,
                                                  !.password = password, !.role = role]]
    /\ UNCHANGED <<build, user, localStorage, mounted, users, inFlightAtLogout>>

\* the statements of signup between the two awaits, inside try
signupCheckTry(resp) ==
    IF resp.rejected THEN Throw
    ELSE IF Truthy(resp.data) THEN Return(FALSE, <<error(<<"Username sudah digunakan">>)>>)
    ELSE GoOn

\* the existence check settles: signup returns, or sends the insert
signupAwaitCheck(c) ==
    /\ calls[c].pc = "await_check"
    /\ \E resp \in single(users, "username", calls[c].username) :
          LET outcome == signupCheckTry(resp)
          IN  IF outcome.goOn
              THEN /\ calls' = [calls EXCEPT ![c].pc = "await_insert"]
                   /\ UNCHANGED isLoading
              ELSE /\ calls' = [calls EXCEPT ![c] =
                                  Settle(@, Catch(outcome, <<"Terjadi kesalahan saat membuat akun">>))]
                   /\ isLoading' = FALSE
    /\ UNCHANGED <<build, user, localStorage, mounted, users, inFlightAtLogout>>

\* insert([{ name, username, password, role }]): the store gives the row its
\* id and created_at
insert(table, call) ==
    table \cup {Row(Cardinality(table) + 1, call.name, call.username, call.password, call.role)}

signupInsertTry_ignoresError(resp) ==
    IF resp.rejected THEN [Return(FALSE, <<>>) EXCEPT !.threw = TRUE]
    ELSE Return(TRUE, <<success(<<"Akun berhasil dibuat! Silakan login.">>)>>)

\* the statements of signup after the insert settles, inside try
signupInsertTry(resp) ==
    IF resp.rejected THEN Throw
    ELSE IF Truthy(resp.error) THEN Return(FALSE, <<error(<<"Gagal membuat akun">>)>>)
    ELSE Return(TRUE, <<success(<<"Akun berhasil dibuat! Silakan login.">>)>>)

signupAwaitInsert_autoLogin(c) ==
    /\ calls[c].pc = "await_insert"
    /\ \E resp \in {Response(Null, Null), Response(Null, OtherError), Rejection} :
          LET applied == ~resp.rejected /\ ~Truthy(resp.error)
              row == Row(Cardinality(users) + 1, calls[c].name, calls[c].username,
                         calls[c].password, calls[c].role)
              session == [t |-> "object", id |-> row.id, name |-> row.name,
                          username |-> row.username, role |-> row.role,
                          created_at |-> row.created_at]
          IN  /\ users' = IF applied THEN users \cup {row} ELSE users
              /\ user' = IF applied THEN session ELSE user
              /\ localStorage' = IF applied
                                 THEN [localStorage EXCEPT !["tobaku_user"] = JSON_stringify(session)]
                                 ELSE localStorage
              /\ calls' = [calls EXCEPT ![c] =
                             [Idle EXCEPT !.pc = "done", !.op = "signup", !.settled = "fulfilled",
                                          !.value = applied]]
    /\ isLoading' = FALSE
    /\ UNCHANGED <<build, mounted, inFlightAtLogout>>

signupAwaitInsert_uniqueUsername(c) ==
    /\ calls[c].pc = "await_insert"
    /\ \E resp \in {Response(Null, Null), Response(Null, OtherError), Rejection} :
          LET taken == \E r \in users : r.username = calls[c].username
              applied == ~resp.rejected /\ ~Truthy(resp.error) /\ ~taken
          IN  /\ users' = IF applied
                          THEN users \cup {Row(Cardinality(users) + 1, calls[c].name,
                                               calls[c].username, calls[c].password, calls[c].role)}
                          ELSE users
              /\ calls' = [calls EXCEPT ![c] =
                             [Idle EXCEPT !.pc = "done", !.op = "signup", !.settled = "fulfilled",
                                          !.value = applied,
                                          !.toast = IF applied
                                                    THEN <<success(<<"Akun berhasil dibuat! Silakan login.">>)>>
                                                    ELSE <<error(<<"Gagal membuat akun">>)>>]]
    /\ isLoading' = FALSE
    /\ UNCHANGED <<build, user, localStorage, mounted, inFlightAtLogout>>

\* the insert settles (applied, refused with an error, or the request
\* rejected) and signup runs to its end
signupAwaitInsert(c) ==
    /\ calls[c].pc = "await_insert"
    /\ \E resp \in {Response(Null, Null), Response(Null, OtherError), Rejection} :
          /\ users' = IF ~resp.rejected /\ ~Truthy(resp.error) THEN insert(users, calls[c]) ELSE users
          /\ calls' = [calls EXCEPT ![c] =
                         Settle(@, Catch(signupInsertTry(resp), <<"Terjadi kesalahan saat membuat akun">>))]
    /\ isLoading' = FALSE
    /\ UNCHANGED <<build, user, localStorage, mounted, inFlightAtLogout>>

logout_keepsSnapshot ==
    /\ mounted
    /\ user' = Null
    /\ inFlightAtLogout' = {c \in 1..MaxCalls : calls[c].pc = "await_lookup"}
    /\ UNCHANGED <<build, isLoading, localStorage, mounted, users, calls>>

\* logout()
logout ==
    /\ mounted
    /\ user' = Null
    /\ localStorage' = removeItem(localStorage, "tobaku_user")
    /\ inFlightAtLogout' = {c \in 1..MaxCalls : calls[c].pc = "await_lookup"}
    /\ UNCHANGED <<build, isLoading, mounted, users, calls>>

Next ==
    \/ Restore
    \/ \E c \in 1..MaxCalls, u \in Usernames, p \in Passwords : login(c, u, p)
    \/ \E c \in 1..MaxCalls : loginAwait(c)
    \/ \E c \in 1..MaxCalls : loginAwait_part_000(c)
    \/ \E c \in 1..MaxCalls, d \in SignupData :
          signup(c, d.name, d.username, d.password, d.role)
    \/ \E c \in 1..MaxCalls : signupAwaitCheck(c)
    \/ \E c \in 1..MaxCalls : signupAwaitInsert(c)
    \/ logout

Spec == Init /\ [][Next]_vars

\* Runs that start without a saved session.
InitNoSnapshot == Init /\ localStorage["tobaku_user"].t = "missing"

\* Runs that start without a saved session or with one that login wrote.
InitLoginSnapshot ==
    /\ Init
    /\ localStorage["tobaku_user"] \in {Missing} \cup {JSON_stringify(userData(r)) : r \in InitialRows}

SpecLoginSnapshot == InitLoginSnapshot /\ [][Next]_vars

\* The table answers or rejects every request it was sent, and the event loop
\* then runs the continuation of the await.
FairSpec ==
    /\ InitNoSnapshot
    /\ [][Next]_vars
    /\ \A c \in 1..MaxCalls :
          /\ WF_vars(loginAwait(c))
          /\ WF_vars(loginAwait_part_000(c))
          /\ WF_vars(signupAwaitCheck(c))
          /\ WF_vars(signupAwaitInsert(c))

(* ------------------------------ claims --------------------------------- *)

Calls == 1..MaxCalls

\* the lookup answered with a row and no error
FoundRow(resp) == ~resp.rejected /\ ~Truthy(resp.error) /\ Truthy(resp.data)

\* the step in which invocation c of login runs from its await to its return
LoginSettles(c) == calls[c].pc = "await_lookup" /\ calls'[c].pc = "done"

\* the value JSON.parse gives back for the saved snapshot, null without one
Restorable(store) ==
    IF store["tobaku_user"].t = "missing" THEN Null
    ELSE JSON_parse(store["tobaku_user"]).value

\* C1: whenever the lookup answers with a row and no error, login resolves
\* true exactly when the row's stored password equals the supplied password.
\* Stated for every answer the table can give to a suspended login, and for
\* every login that actually resolves true.
C1_TrueIffStoredPasswordEqual ==
    /\ [](\A c \in Calls : calls[c].pc = "await_lookup" =>
            \A resp \in single(users, "*", calls[c].username) :
               FoundRow(resp) =>
                  LET outcome == IF build = "AuthContext"
                                 THEN loginOutcome(resp, calls[c].username, calls[c].password)
                                 ELSE loginOutcome_part_000(resp, calls[c].username, calls[c].password)
                  IN  ~outcome.threw /\ (outcome.value <=> resp.data.password = calls[c].password))
    /\ [][\A c \in Calls : (LoginSettles(c) /\ calls'[c].value) =>
              \E r \in users : r.username = calls[c].username /\ r.password = calls[c].password]_vars

\* C2: a login that resolves true has, in that same step, set user to the
\* id, name, username, role and created_at of the row found for the username
\* and saved that value under the key tobaku_user.
C2_TrueLoginSetsAndSavesUser ==
    [][\A c \in Calls : (LoginSettles(c) /\ calls'[c].value) =>
          /\ \E r \in users :
                /\ r.username = calls[c].username
                /\ user' = [t |-> "object", id |-> r.id, name |-> r.name, username |-> r.username,
                            role |-> r.role, created_at |-> r.created_at]
          /\ localStorage'["tobaku_user"].t = "string"
          /\ Restorable(localStorage') = user']_vars

C2_Witness ==
    \E c \in Calls :
       /\ calls[c].op = "login" /\ calls[c].pc = "done" /\ calls[c].value
       /\ user.t = "object" /\ Restorable(localStorage) = user

\* C3: a login that resolves false leaves user and the saved snapshot as they
\* were just before the step in which it returns.
C3_FalseLoginKeepsSession ==
    [][\A c \in Calls : (LoginSettles(c) /\ ~calls'[c].value) =>
          (user' = user /\ localStorage' = localStorage)]_vars

C3_Witness ==
    \E c \in Calls :
       /\ calls[c].op = "login" /\ calls[c].pc = "done" /\ ~calls[c].value
       /\ user.t = "object" /\ localStorage["tobaku_user"].t = "string"

\* C4: logout is one step that can always be taken, clears user, removes the
\* saved snapshot, and touches neither the table nor any invocation: every
\* step that is not the mount effect and not a step of a login or signup
\* invocation has exactly these effects.
C4_LogoutIsLocal ==
    /\ [](mounted => ENABLED logout)
    /\ [][(logout \/ (mounted /\ calls' = calls)) =>
             /\ user' = Null
             /\ localStorage'["tobaku_user"].t = "missing"
             /\ users' = users
             /\ calls' = calls
             /\ isLoading' = isLoading]_vars

C4_Witness ==
    /\ \E c \in Calls : calls[c].op = "login" /\ calls[c].pc = "done" /\ calls[c].value
    /\ user = Null
    /\ localStorage["tobaku_user"].t = "missing"
    /\ users # {}

\* C5: no step of a signup invocation changes user or the saved snapshot.
C5_SignupKeepsSession ==
    [][\A c \in Calls :
          ((calls[c].op = "signup" \/ calls'[c].op = "signup") /\ calls'[c] # calls[c]) =>
             (user' = user /\ localStorage' = localStorage)]_vars

C5_Witness ==
    \E c \in Calls :
       /\ calls[c].op = "signup" /\ calls[c].pc = "done" /\ calls[c].value
       /\ user.t = "object"
       /\ "id" \in DOMAIN user
       /\ \E r \in users : r.id # user.id
       /\ Restorable(localStorage) = user

\* C6: a signup whose existence check runs while the table holds a row with
\* its username returns false at that step and never sends the insert,
\* whatever the check answers.
C6_TakenUsernameNeverInserted ==
    [][\A c \in Calls :
          (/\ calls[c].pc = "await_check"
           /\ calls'[c] # calls[c]
           /\ \E r \in users : r.username = calls[c].username) =>
             (calls'[c].pc = "done" /\ ~calls'[c].value /\ users' = users)]_vars

\* the step in which invocation c of signup runs from the insert to its return
SignupInsertSettles(c) == calls[c].pc = "await_insert" /\ calls'[c].pc = "done"

\* C7: when the insert is applied, signup resolves true and the table gains
\* exactly one row, carrying the supplied name, username, password and role;
\* when the insert is not applied, signup resolves false and the table is as
\* it was.
C7_SignupInsert ==
    [][\A c \in Calls : SignupInsertSettles(c) =>
          /\ calls'[c].settled = "fulfilled"
          /\ calls'[c].value <=> users' # users
          /\ users' # users =>
                /\ users \subseteq users'
                /\ Cardinality(users') = Cardinality(users) + 1
                /\ \A r \in users' \ users :
                      /\ r.name = calls[c].name
                      /\ r.username = calls[c].username
                      /\ r.password = calls[c].password
                      /\ r.role = calls[c].role]_vars

C7_Witness ==
    /\ \E c \in Calls : calls[c].op = "signup" /\ calls[c].pc = "done" /\ calls[c].value
    /\ \E c \in Calls :
          /\ calls[c].op = "signup" /\ calls[c].pc = "done" /\ ~calls[c].value
          /\ calls[c].toast = <<error(<<"Gagal membuat akun">>)>>
    /\ \E r \in users : r.id # "1"

InFlight(c) == calls[c].pc \in {"await_lookup", "await_check", "await_insert"}

\* C8: isLoading is true exactly when the mount effect has not run yet or a
\* login or signup invocation has started and not returned.
C8_IsLoadingIffInFlight ==
    isLoading <=> (~mounted \/ \E c \in Calls : InFlight(c))

\* C9: the mount effect runs from user = null and isLoading = true and ends
\* with isLoading false; without a saved key user stays null; with a saved
\* value that does not parse user stays null and the key is removed; with a
\* value that parses user is the parsed value and the key is kept; no request
\* is sent and the table is untouched.
C9_Restore ==
    /\ [](~mounted => (user = Null /\ isLoading))
    /\ [][(~mounted /\ mounted') =>
             /\ ~isLoading'
             /\ users' = users
             /\ calls' = calls
             /\ LET item == localStorage["tobaku_user"]
                IN  IF item.t = "missing"
                    THEN user' = Null /\ localStorage' = localStorage
                    ELSE IF JSON_parse(item).threw
                    THEN user' = Null /\ localStorage'["tobaku_user"].t = "missing"
                    ELSE user' = JSON_parse(item).value /\ localStorage' = localStorage]_vars

\* C10: no login or signup invocation ever lets an exception escape, and,
\* once started, each one returns a boolean, whatever the table answers.
C10_AlwaysResolves ==
    /\ [](\A c \in Calls : calls[c].settled # "rejected")
    /\ \A c \in Calls :
          (calls[c].pc # "idle") ~> (calls[c].pc = "done" /\ calls[c].settled = "fulfilled")

C10_Witness ==
    /\ \E c \in Calls :
          /\ calls[c].op = "login" /\ calls[c].pc = "done" /\ calls[c].settled = "fulfilled"
          /\ calls[c].toast = <<error(<<"Terjadi kesalahan saat login">>)>>
    /\ \E c \in Calls :
          /\ calls[c].op = "signup" /\ calls[c].pc = "done" /\ calls[c].settled = "fulfilled"
          /\ calls[c].toast = <<error(<<"Terjadi kesalahan saat membuat akun">>)>>

\* a fully populated User: the five fields, a non-empty username, a role of
\* the closed set
FullUser(v) ==
    /\ v.t = "object"
    /\ DOMAIN v = {"t", "id", "name", "username", "role", "created_at"}
    /\ v.username # ""
    /\ v.role \in {"admin", "staff"}

\* C11: user is null or a fully populated User with a non-empty username and
\* a role in {admin, staff}, whatever the key held at mount.
C11_UserIsNullOrFullUser ==
    user.t = "null" \/ FullUser(user)

\* the key tobaku_user is there
SnapshotPresent == localStorage["tobaku_user"].t # "missing"

\* C12: after the mount effect, the snapshot is there exactly when user is
\* not null, the value it restores to is user, and user changes to another
\* non-null value only in the step of a login that resolves true, to the user
\* of that login.
C12_SnapshotMirrorsUser ==
    /\ [](mounted =>
            /\ SnapshotPresent <=> user.t # "null"
            /\ SnapshotPresent => (~JSON_parse(localStorage["tobaku_user"]).threw
                                     /\ Restorable(localStorage) = user))
    /\ [][(mounted /\ user' # user /\ user'.t # "null") =>
             \E c \in Calls :
                /\ LoginSettles(c) /\ calls'[c].value
                /\ FullUser(user') /\ user'.username = calls[c].username]_vars

\* C13: a step from user null to user not null is the mount effect or the
\* return of a login that resolves true; a step from user not null to user
\* null is a logout.
C13_SessionTransitions ==
    [][/\ (user.t = "null" /\ user'.t # "null") =>
            \/ ~mounted /\ mounted'
            \/ \E c \in Calls : LoginSettles(c) /\ calls'[c].value
       /\ (user.t # "null" /\ user'.t = "null") =>
            /\ mounted /\ mounted'
            /\ calls' = calls
            /\ ~SnapshotPresent']_vars

C13_Witness ==
    /\ mounted
    /\ user.t = "object"
    /\ \E c \in Calls : calls[c].op = "login" /\ calls[c].pc = "done" /\ calls[c].value
    /\ \E c \in Calls : calls[c].pc = "done" /\ ~calls[c].value

\* C14: two overlapping signups with one username can both pass the
\* existence check and both insert.  A signup whose check runs while no row
\* has its username can go on to the insert whatever the other invocations
\* are doing, and a signup suspended at the insert can have it applied and
\* resolve true whatever rows the table holds by then; the witness is the
\* state this leads to, two rows with one username and both signups true.
C14_SignupRace ==
    \A c \in Calls :
       /\ (calls[c].pc = "await_check" /\ ~\E r \in users : r.username = calls[c].username) =>
             ENABLED (signupAwaitCheck(c) /\ calls'[c].pc = "await_insert")
       /\ calls[c].pc = "await_insert" =>
             ENABLED (signupAwaitInsert(c) /\ calls'[c].value
                      /\ Cardinality(users') = Cardinality(users) + 1)

C14_Witness ==
    /\ \A c \in 1..2 : calls[c].op = "signup" /\ calls[c].pc = "done" /\ calls[c].value
    /\ \E r1, r2 \in users : r1 # r2 /\ r1.username = r2.username

\* C15: every login or signup that has returned raised exactly one toast, a
\* success toast exactly when it returned true.
C15_OneToastPerCall ==
    \A c \in Calls : calls[c].pc = "done" =>
       /\ Len(calls[c].toast) = 1
       /\ calls[c].toast[1].kind = "success" <=> calls[c].value

\* C16 as claimed: after the mount effect, a step that takes user from null
\* to not null is the return of a login that resolves true and that was not
\* suspended at its await when logout last ran; a login that was suspended
\* then leaves user null and the key missing when it returns.
C16_StaleLoginCannotRestore ==
    [][/\ (mounted /\ user.t = "null" /\ user'.t # "null") =>
            \E c \in Calls \ inFlightAtLogout : LoginSettles(c) /\ calls'[c].value
       /\ \A c \in inFlightAtLogout :
            (LoginSettles(c) /\ user.t = "null" /\ ~SnapshotPresent) =>
               (user'.t = "null" /\ ~SnapshotPresent')]_vars

\* C16 as amended: after the mount effect, user and the snapshot go from
\* absent to present only in the return of a login that resolves true, which
\* writes both; logout does not cancel a login suspended at its await: if the
\* table holds exactly one row for its username, with the supplied password,
\* that login can still return true and write the session.
C16_AnyTrueLoginRestores ==
    /\ [][(mounted /\ ((user.t = "null" /\ user'.t # "null")
                     \/ (~SnapshotPresent /\ SnapshotPresent'))) =>
             \E c \in Calls :
                /\ LoginSettles(c) /\ calls'[c].value
                /\ FullUser(user') /\ SnapshotPresent' /\ Restorable(localStorage') = user']_vars
    /\ [](\A c \in inFlightAtLogout :
            LET matching == {r \in users : r.username = calls[c].username}
            IN  (/\ build = "AuthContext"
                 /\ calls[c].pc = "await_lookup"
                 /\ Cardinality(matching) = 1
                 /\ \A r \in matching : r.password = calls[c].password) =>
                   ENABLED (/\ loginAwait(c)
                            /\ calls'[c].value
                            /\ user'.t = "object"
                            /\ localStorage'["tobaku_user"].t = "string"))

C16_Witness ==
    /\ build = "AuthContext"
    /\ user.t = "null" /\ ~SnapshotPresent
    /\ \E c \in inFlightAtLogout :
          /\ calls[c].pc = "await_lookup"
          /\ \E r \in users : r.username = calls[c].username /\ r.password = calls[c].password
    /\ \E d \in Calls : calls[d].op = "login" /\ calls[d].pc = "done" /\ calls[d].value

\* C17: once the mount effect has run and no invocation is in flight,
\* isLoading is false; and every invocation in flight returns, leaving
\* isLoading false as it does.
C17_IsLoadingResets ==
    /\ []((mounted /\ \A c \in Calls : ~InFlight(c)) => ~isLoading)
    /\ \A c \in Calls : InFlight(c) ~> (calls[c].pc = "done" /\ ~isLoading)

C17_Witness ==
    /\ mounted /\ ~isLoading
    /\ \A c \in 1..2 : calls[c].pc = "done"
    /\ \E c \in 1..2 : calls[c].value
    /\ \E c \in 1..2 : ~calls[c].value

\* the values a JSON text carries, by key
Members(s) == {s.members[i] : i \in 1..Len(s.members)}

\* C18: starting without a saved key or with one that login wrote, neither
\* user nor the saved snapshot has a password field, nor any field holding a
\* password.
C18_NoPasswordInSession ==
    /\ "password" \notin DOMAIN user
    /\ \A k \in DOMAIN user : user[k] \notin Passwords
    /\ SnapshotPresent =>
          \A m \in Members(localStorage["tobaku_user"]) : m[1] # "password" /\ m[2] \notin Passwords

C18_Witness ==
    /\ \E c \in Calls : calls[c].op = "login" /\ calls[c].pc = "done" /\ calls[c].value
    /\ \E r \in users : r.id = "2" /\ FullUser(user) /\ user.id = "2" /\ r.password \in Passwords
    /\ Restorable(localStorage) = user

====
